---- MODULE Spec2Model ----
(***************************************************************************)
(* Model of the TypeScript API extractor: the module graph builder         *)
(* (ModuleSet::from_entrypoints with its relative path resolution) and the *)
(* per-file symbol extraction (parse_typescript_file).                     *)
(*                                                                         *)
(* Strings that the code takes apart are modelled by their parts:          *)
(*   - a path component is the sequence of its dot-separated parts,        *)
(*     "b.d.ts" is <<"b", "d", "ts">>, ".." is DotDot;                     *)
(*   - a PathBuf is the sequence of its components below the root (all     *)
(*     paths of the model are absolute); PathBuf equality and hashing      *)
(*     compare components, so "." components never appear;                 *)
(*   - a specifier is [lead, comps]: lead is the literal prefix "./" or    *)
(*     "../" ("" for a bare specifier), comps the components after it.     *)
(***************************************************************************)
EXTENDS Integers, Sequences, FiniteSets, TLC

VARIABLES
    fs,             \* the files on disk: canonical path -> content
    entry_points,   \* the internal paths of the entry points, in iteration order
    queue,          \* from_entrypoints: queue
    visited_paths,  \* from_entrypoints: visited_paths
    modules,        \* from_entrypoints: modules (path -> Module)
    current_path,   \* from_entrypoints: current_path of the running iteration
    pc,             \* position in from_entrypoints: "loop", "read", "done"; "parse" in ParseSpec
    result,         \* the value from_entrypoints returns
    reads,          \* history: the paths handed to read_to_string, in order
    resolutions,    \* history: the calls of resolve_relative_import, with their results
    src,            \* the file content given to parse_typescript_file
    parsed,         \* the value parse_typescript_file returned
    matches,        \* extract_exports: the matches the cursor has not yielded yet
    scan,           \* extract_exports: exports, current_names, current_aliases, current_source
    manifest,       \* extract_metadata: the package.json of the library
    metadata,       \* extract_metadata: the value it returned
    pkg_dirs,       \* resolve_dependency_path: the directories from the root to the dependant
    dependant_path, \* resolve_dependency_path: dependant_path of the running call
    resolved        \* resolve_dependency_path: the value it returned

vars == <<fs, entry_points, queue, visited_paths, modules, current_path, pc,
          result, reads, resolutions, src, parsed, matches, scan,
          manifest, metadata, pkg_dirs, dependant_path, resolved>>

\* ---------------------------------------------------------------- bounds

\* The largest number of entry points of a library.
MaxEntryPoints == 2

\* The largest number of statements in the content of the main file a.ts.
MaxStmts == 2

\* The largest number of top-level nodes of a file given to the parser alone.
MaxNodes == 3

\* ------------------------------------------------------- paths and names

\* The values of the variables of an operation that is not running.
NoManifest == [exports |-> [shape |-> "absent"]]
NotExtracted == [ok |-> FALSE, error |-> "None"]
NotResolved == [ok |-> FALSE, error |-> "None"]

DotDot == <<"..">>

DTS == <<"d", "ts">>
TS == <<"ts">>

NoPath == <<DotDot, DotDot, DotDot>>   \* Option<PathBuf>::None

Last(s) == s[Len(s)]
Front(s) == SubSeq(s, 1, Len(s) - 1)

\* Path::parent of a path that names a file.
Parent(path) == Front(path)

\* Path::file_stem on a component: the part before the last dot; the whole
\* name when there is no dot or the only dot is the first character.
FileStem(comp) ==
    IF Len(comp) = 1 THEN comp
    ELSE IF Len(comp) = 2 /\ comp[1] = "" THEN comp
    ELSE Front(comp)

\* A plausible slip: the extension is appended to the whole file name.
with_extension_appending(path, ext) ==
    IF path = <<>> \/ Last(path) = DotDot THEN path
    ELSE Front(path) \o <<Last(path) \o ext>>

\* Path::with_extension: replaces what follows the last dot of the file name;
\* a path without a file name (ending in "..") is returned unchanged.
with_extension(path, ext) ==
    IF path = <<>> \/ Last(path) = DotDot THEN path
    ELSE Front(path) \o <<FileStem(Last(path)) \o ext>>

\* parent_dir.join(import_path) for a specifier that starts with "./" or "../".
Join(parent_dir, import_path) ==
    parent_dir
        \o (IF import_path.lead = "../" THEN <<DotDot>> ELSE <<>>)
        \o import_path.comps

\* ------------------------------------------------------------ file system

P == <<"p">>            \* the package directory /p
U == <<"u">>            \* its subdirectory /p/u
L == <<"l">>            \* /l, a symbolic link to /p

Dirs == { <<>>, <<P>>, <<P, U>> }

IsSymlink(path) == path = <<L>>
SymlinkTarget(path) == <<P>>

FileA == <<P, <<"a", "ts">>>>
FileBdts == <<P, <<"b", "d", "ts">>>>
FileBts == <<P, <<"b", "ts">>>>
FileUdts == <<P, U, <<"index", "d", "ts">>>>
FileUts == <<P, U, <<"index", "ts">>>>
FileUsib == <<P, <<"u", "ts">>>>

IsFile(files, path) == path \in DOMAIN files

\* One step of path resolution by the operating system: from the real
\* directory cur, follow component c.
RECURSIVE Realpath(_, _, _)
Realpath(files, cur, rest) ==
    IF rest = <<>> THEN cur
    ELSE IF cur = NoPath \/ cur \notin Dirs THEN NoPath
    ELSE LET c == Head(rest)
             next == IF c = DotDot THEN (IF cur = <<>> THEN <<>> ELSE Front(cur))
                     ELSE IF IsSymlink(cur \o <<c>>) THEN SymlinkTarget(cur \o <<c>>)
                     ELSE IF cur \o <<c>> \in Dirs \/ IsFile(files, cur \o <<c>>)
                          THEN cur \o <<c>>
                     ELSE NoPath
         IN Realpath(files, next, Tail(rest))

\* Path::canonicalize: the real path, or None when a component is missing.
canonicalize(files, path) == Realpath(files, <<>>, path)

\* Path::is_dir (follows links).
is_dir(files, path) == canonicalize(files, path) \in Dirs

\* read_to_string succeeds exactly on a path that leads to a file.
CanRead(files, path) == IsFile(files, canonicalize(files, path))
ReadToString(files, path) == files[canonicalize(files, path)]

\* ------------------------------------------------------------ specifiers

Specifier(lead, comps) == [lead |-> lead, comps |-> comps]

NoSource == Specifier("none", <<>>)     \* Option<String>::None of a source module
NoName == "<none>"                       \* Option<String>::None of a name

SpecA == Specifier("./", << <<"a">> >>)             \* './a'
SpecB == Specifier("./", << <<"b">> >>)             \* './b'
SpecBjs == Specifier("./", << <<"b", "js">> >>)     \* './b.js'
SpecBts == Specifier("./", << <<"b", "ts">> >>)     \* './b.ts'
SpecU == Specifier("./", << <<"u">> >>)             \* './u'
SpecUpA == Specifier("../", << <<"a">> >>)          \* '../a'
SpecMissing == Specifier("./", << <<"missing">> >>) \* './missing'
SpecExt == Specifier("", << <<"ext">> >>)           \* 'ext'
SpecBareA == Specifier("", << <<"a", "ts">> >>)     \* 'a.ts'

\* import_path.starts_with("./") || import_path.starts_with("../")
IsRelative(import_path) == import_path.lead \in {"./", "../"}

\* ------------------------------------------------------- the syntax tree
\* A file content is [error, nodes]: error says that the tree has a syntax
\* error, nodes are the children of the root in source order.  Nodes:
\*   [kind |-> "comment", jsdoc, tag]          jsdoc: starts with "/**",
\*                                             tag: contains @file, @fileoverview or @module
\*   [kind |-> "import_statement", source, clause]   clause: the children of
\*        the import_clause, <<>> for an import without clause
\*   [kind |-> "declaration", names, declare, export, default, lexical]
\*        lexical: a lexical_declaration, which has no name field of its own
\*   [kind |-> "internal_module", name, body, export]
\*        name: NoName when the name is no identifier (`namespace A.B`, a
\*        nested_identifier)
\*   [kind |-> "export_statement", form, source, name, children]
\*        form: "export_clause", "commonjs", "namespace_export", "barrel", "default"
\* The position of a node is its path of child indexes from the root.

Comment(jsdoc, tag) == [kind |-> "comment", jsdoc |-> jsdoc, tag |-> tag]
NoNode == [kind |-> "none"]

ImportDefault(name) == [kind |-> "identifier", name |-> name]
ImportNamespace(name) == [kind |-> "namespace_import", name |-> name]
\* An import_specifier: first is the kind of its first child, "identifier"
\* for `N` and `N as M`, "type" for `type N`.
ImportSpecifier(name, alias) ==
    [name |-> name, alias |-> alias, first |-> "identifier"]
TypeImportSpecifier(name, alias) ==
    [name |-> name, alias |-> alias, first |-> "type"]
ImportNamed(specifiers) == [kind |-> "named_imports", specifiers |-> specifiers]
ImportStmt(clause, source) ==
    [kind |-> "import_statement", source |-> source, clause |-> clause]

Decl(names, declare, export) ==
    [kind |-> "declaration", names |-> names, declare |-> declare,
     export |-> export, default |-> FALSE, lexical |-> Len(names) > 1]

\* `export default declare <declaration>`; lexical: a const or let
\* declaration, whose names are those of its variable_declarators.
DefaultDecl(names, lexical) ==
    [kind |-> "declaration", names |-> names, declare |-> TRUE,
     export |-> TRUE, default |-> TRUE, lexical |-> lexical]

NamespaceDecl(name, body, export) ==
    [kind |-> "internal_module", name |-> name, body |-> body, export |-> export]

ExportSpecifier(name, alias) ==
    [kind |-> "export_specifier", name |-> name, alias |-> alias]
ExportClause(children, source) ==
    [kind |-> "export_statement", form |-> "export_clause", source |-> source,
     name |-> NoName, children |-> children]
ExportCommonJs(name) ==
    [kind |-> "export_statement", form |-> "commonjs", source |-> NoSource,
     name |-> name, children |-> <<>>]
ExportNamespace(name, source) ==
    [kind |-> "export_statement", form |-> "namespace_export", source |-> source,
     name |-> name, children |-> <<>>]
ExportBarrel(source) ==
    [kind |-> "export_statement", form |-> "barrel", source |-> source,
     name |-> NoName, children |-> <<>>]
ExportDefault(name) ==
    [kind |-> "export_statement", form |-> "default", source |-> NoSource,
     name |-> name, children |-> <<>>]

RECURSIVE Concat(_)
Concat(ss) == IF ss = <<>> THEN <<>> ELSE Head(ss) \o Concat(Tail(ss))

\* Document order of positions: a node precedes its descendants and the
\* nodes that start after it.
RECURSIVE PosLess(_, _)
PosLess(a, b) ==
    IF a = <<>> THEN b # <<>>
    ELSE IF b = <<>> THEN FALSE
    ELSE IF Head(a) # Head(b) THEN Head(a) < Head(b)
    ELSE PosLess(Tail(a), Tail(b))

\* The nodes below a root in document order, as the query cursor visits
\* them: each with its position, its previous sibling and whether an
\* internal_module lies between it and the root.
RECURSIVE DescFrom(_, _, _, _)
DescFrom(nodes, i, prefix, inNs) ==
    IF i > Len(nodes) THEN <<>>
    ELSE LET n == nodes[i]
             entry == [node |-> n, at |-> prefix \o <<i>>, ns |-> inNs,
                       prev |-> IF i = 1 THEN NoNode ELSE nodes[i - 1],
                       prevAt |-> prefix \o <<i - 1>>]
         IN <<entry>>
            \o (IF n.kind = "internal_module"
                THEN DescFrom(n.body, 1, prefix \o <<i>>, TRUE) ELSE <<>>)
            \o DescFrom(nodes, i + 1, prefix, inNs)

Descendants(nodes, prefix) == DescFrom(nodes, 1, prefix, FALSE)

\* ------------------------------------------------------ symbol extraction
\* A TypeScriptSymbol is a record with a type field ("ModuleImport", "Symbol",
\* "Namespace", "ModuleExport").  Its field at is not in the program: it is
\* the position of the statement the symbol was extracted from (for a named
\* export, of the statement of its first name).

EmptyMap == [k \in {} |-> NoName]

\* HashMap::insert
MapInsert(map, key, value) ==
    [k \in DOMAIN map \cup {key} |-> IF k = key THEN value ELSE map[k]]

\* get_jsdoc: the comment when the node is a comment starting with "/**".
get_jsdoc(node) == IF node.kind = "comment" /\ node.jsdoc THEN node ELSE NoNode

is_module_jsdoc(comment) == comment.tag

RECURSIVE NamedImportAliases(_, _)
NamedImportAliases(specifiers, map) ==
    IF specifiers = <<>> THEN map
    ELSE NamedImportAliases(Tail(specifiers),
            IF Head(specifiers).alias # NoName
            THEN MapInsert(map, Head(specifiers).name, Head(specifiers).alias)
            ELSE map)

\* The filter_map over the children of one import clause.
ImportTargets(d) ==
    LET clause == d.node.clause
        one(child) ==
            IF child.kind = "identifier"
            THEN << [type |-> "ModuleImport", source_module |-> d.node.source,
                     target |-> [kind |-> "Default", name |-> child.name],
                     at |-> d.at] >>
            ELSE IF child.kind = "namespace_import"
            THEN << [type |-> "ModuleImport", source_module |-> d.node.source,
                     target |-> [kind |-> "Namespace", name |-> child.name],
                     at |-> d.at] >>
            ELSE IF child.kind = "named_imports"
            THEN << [type |-> "ModuleImport", source_module |-> d.node.source,
                     target |-> [kind |-> "Named",
                                 names |-> [k \in 1..Len(child.specifiers) |->
                                               child.specifiers[k].name],
                                 aliases |-> NamedImportAliases(child.specifiers, EmptyMap)],
                     at |-> d.at] >>
            ELSE <<>>
    IN Concat([k \in 1..Len(clause) |-> one(clause[k])])

\* extract_imports stops the process ("Failed to get import identifier") at
\* an import specifier whose first child is no identifier.
ImportsPanic(nodes) ==
    LET D == Descendants(nodes, <<>>)
    IN \E i \in 1..Len(D) :
          /\ D[i].node.kind = "import_statement"
          /\ \E c \in 1..Len(D[i].node.clause) :
                /\ D[i].node.clause[c].kind = "named_imports"
                /\ \E k \in 1..Len(D[i].node.clause[c].specifiers) :
                      D[i].node.clause[c].specifiers[k].first # "identifier"

\* extract_imports: every import statement with a clause below the root.
extract_imports(nodes, prefix) ==
    LET D == Descendants(nodes, prefix)
    IN Concat([i \in 1..Len(D) |->
                 IF D[i].node.kind = "import_statement" /\ D[i].node.clause # <<>>
                 THEN ImportTargets(D[i]) ELSE <<>>])

\* The text of a node as the sequence of its tokens.  A token is named by the
\* position of its node; a namespace is its header, the text of its body
\* and its closing brace.
RECURSIVE TextOfRange(_, _, _, _)

TextOf(node, at) ==
    IF node.kind = "internal_module"
    THEN << [at |-> at, part |-> "open"] >>
         \o TextOfRange(node.body, at, 1, Len(node.body))
         \o << [at |-> at, part |-> "close"] >>
    ELSE << [at |-> at, part |-> "all"] >>

\* content[start_byte..end_byte] from the start of the child first to the
\* end of the child last of the node at prefix.
TextOfRange(nodes, prefix, first, last) ==
    IF first > last THEN <<>>
    ELSE TextOf(nodes[first], prefix \o <<first>>)
         \o TextOfRange(nodes, prefix, first + 1, last)

\* A plausible slip: the JSDoc comment is looked for behind a plain comment
\* too, and its text is put in front of the text of the declaration.
DeclSymbols_gluing(d, nodes, prefix) ==
    LET k == Last(d.at)
        back == IF d.prev.kind = "comment" /\ ~d.prev.jsdoc /\ k > 2 THEN k - 2 ELSE k - 1
        jsdoc == IF back >= 1 THEN get_jsdoc(nodes[back]) ELSE NoNode
    IN [i \in 1..Len(d.node.names) |->
          [type |-> "Symbol", name |-> d.node.names[i],
           source_code |->
               (IF jsdoc # NoNode /\ ~is_module_jsdoc(jsdoc)
                THEN TextOf(nodes[back], prefix \o <<back>>) ELSE <<>>)
               \o TextOf(d.node, d.at),
           is_exported |-> d.node.export, at |-> d.at]]

\* A plausible slip: a module-level JSDoc comment is taken for the JSDoc of
\* the declaration that follows it.
DeclSymbols_any_jsdoc(d, nodes, prefix) ==
    LET jsdoc == get_jsdoc(d.prev)
        end == Last(d.at)
        start == IF jsdoc # NoNode THEN end - 1 ELSE end
    IN [k \in 1..Len(d.node.names) |->
          [type |-> "Symbol", name |-> d.node.names[k],
           source_code |-> TextOfRange(nodes, prefix, start, end),
           is_exported |-> d.node.export, at |-> d.at]]

\* One match of the symbols query: the declaration widened to its declare
\* and export wrappers; its source code is the text from the preceding JSDoc
\* comment, unless that is module-level, to the end of the declaration.
DeclSymbols(d, nodes, prefix) ==
    LET jsdoc == get_jsdoc(d.prev)
        end == Last(d.at)
        start == IF jsdoc # NoNode /\ ~is_module_jsdoc(jsdoc) THEN end - 1 ELSE end
    IN [k \in 1..Len(d.node.names) |->
          [type |-> "Symbol", name |-> d.node.names[k],
           source_code |-> TextOfRange(nodes, prefix, start, end),
           is_exported |-> d.node.export, at |-> d.at]]

\* extract_symbols: the declarations below the root that are in no namespace.
extract_symbols(nodes, prefix) ==
    LET D == Descendants(nodes, prefix)
    IN Concat([i \in 1..Len(D) |->
                 IF D[i].node.kind = "declaration" /\ ~D[i].ns
                 THEN DeclSymbols(D[i], nodes, prefix) ELSE <<>>])

\* A plausible slip: the buffer is emitted without looking whether it holds
\* a name.
emit_accumulated_exports_unguarded(st) ==
    [st EXCEPT
       !.exports = Append(@, [type |-> "ModuleExport",
                              source_module |-> st.current_source,
                              target |-> [kind |-> "Named",
                                          names |-> st.current_names,
                                          aliases |-> st.current_aliases],
                              at |-> st.current_at]),
       !.current_names = <<>>,
       !.current_aliases = EmptyMap]

\* A plausible slip: the alias map is not cleared with the names.
emit_accumulated_exports_keeping_aliases(st) ==
    IF st.current_names # <<>>
    THEN [st EXCEPT
            !.exports = Append(@, [type |-> "ModuleExport",
                                   source_module |-> st.current_source,
                                   target |-> [kind |-> "Named",
                                               names |-> st.current_names,
                                               aliases |-> st.current_aliases],
                                   at |-> st.current_at]),
            !.current_names = <<>>]
    ELSE st

\* emit_accumulated_exports
emit_accumulated_exports(st) ==
    IF st.current_names # <<>>
    THEN [st EXCEPT
            !.exports = Append(@, [type |-> "ModuleExport",
                                   source_module |-> st.current_source,
                                   target |-> [kind |-> "Named",
                                               names |-> st.current_names,
                                               aliases |-> st.current_aliases],
                                   at |-> st.current_at]),
            !.current_names = <<>>,
            !.current_aliases = EmptyMap]
    ELSE st

\* The matches of the exports query below a root, in document order.  A
\* named-export clause gives one match per specifier; is_last says that the
\* specifier has no next named sibling (a comment is a named node).
ExportMatches(nodes, prefix) ==
    LET D == Descendants(nodes, prefix)
        ofClause(d) ==
            LET ch == d.node.children
            IN Concat([k \in 1..Len(ch) |->
                 IF ch[k].kind = "export_specifier"
                 THEN << [form |-> "export_specifier", name |-> ch[k].name,
                          alias |-> ch[k].alias, source |-> d.node.source,
                          is_last |-> k = Len(ch), at |-> d.at] >>
                 ELSE <<>>])
        ofNode(d) ==
            IF d.node.kind # "export_statement" THEN <<>>
            ELSE IF d.node.form = "export_clause" THEN ofClause(d)
            ELSE IF d.node.form \in {"commonjs", "namespace_export", "barrel"}
            THEN << [form |-> d.node.form, name |-> d.node.name, alias |-> NoName,
                     source |-> d.node.source, is_last |-> TRUE, at |-> d.at] >>
            ELSE <<>>
    IN Concat([i \in 1..Len(D) |-> ofNode(D[i])])

ExportScanInit ==
    [exports |-> <<>>, current_names |-> <<>>, current_aliases |-> EmptyMap,
     current_source |-> NoSource, current_at |-> <<>>]

\* A plausible slip: current_source is not reset after the names of a
\* statement were emitted.
ExportStep_keeping_source(st, m) ==
    IF m.form = "barrel"
    THEN [st EXCEPT !.exports = Append(@, [type |-> "ModuleExport",
                                          source_module |-> m.source,
                                          target |-> [kind |-> "Barrel"],
                                          at |-> m.at])]
    ELSE IF m.form = "namespace_export"
    THEN [st EXCEPT !.exports = Append(@, [type |-> "ModuleExport",
                                          source_module |-> m.source,
                                          target |-> [kind |-> "Namespace", name |-> m.name],
                                          at |-> m.at])]
    ELSE LET st1 == IF m.source # st.current_source
                    THEN [emit_accumulated_exports(st) EXCEPT !.current_source = m.source]
                    ELSE st
             st2 == [st1 EXCEPT
                       !.current_at = IF st1.current_names = <<>> THEN m.at ELSE @,
                       !.current_names = Append(@, m.name),
                       !.current_aliases = IF m.alias # NoName
                                           THEN MapInsert(@, m.name, m.alias) ELSE @]
         IN IF m.form = "commonjs" \/ m.is_last
            THEN emit_accumulated_exports(st2)
            ELSE st2

\* A plausible slip: a barrel or namespace re-export emits the buffered
\* names before it is pushed.
ExportStep_flushing_first(st, m) ==
    IF m.form = "barrel"
    THEN [emit_accumulated_exports(st) EXCEPT
            !.exports = Append(@, [type |-> "ModuleExport",
                                   source_module |-> m.source,
                                   target |-> [kind |-> "Barrel"],
                                   at |-> m.at])]
    ELSE IF m.form = "namespace_export"
    THEN [emit_accumulated_exports(st) EXCEPT
            !.exports = Append(@, [type |-> "ModuleExport",
                                   source_module |-> m.source,
                                   target |-> [kind |-> "Namespace", name |-> m.name],
                                   at |-> m.at])]
    ELSE LET st1 == IF m.source # st.current_source
                    THEN [emit_accumulated_exports(st) EXCEPT !.current_source = m.source]
                    ELSE st
             st2 == [st1 EXCEPT
                       !.current_at = IF st1.current_names = <<>> THEN m.at ELSE @,
                       !.current_names = Append(@, m.name),
                       !.current_aliases = IF m.alias # NoName
                                           THEN MapInsert(@, m.name, m.alias) ELSE @]
         IN IF m.form = "commonjs" \/ m.is_last
            THEN [emit_accumulated_exports(st2) EXCEPT !.current_source = NoSource]
            ELSE st2

\* The body of the closure of extract_exports, applied to one match.
ExportStep(st, m) ==
    IF m.form = "barrel"
    THEN [st EXCEPT !.exports = Append(@, [type |-> "ModuleExport",
                                          source_module |-> m.source,
                                          target |-> [kind |-> "Barrel"],
                                          at |-> m.at])]
    ELSE IF m.form = "namespace_export"
    THEN [st EXCEPT !.exports = Append(@, [type |-> "ModuleExport",
                                          source_module |-> m.source,
                                          target |-> [kind |-> "Namespace", name |-> m.name],
                                          at |-> m.at])]
    ELSE LET st1 == IF m.source # st.current_source
                    THEN [emit_accumulated_exports(st) EXCEPT !.current_source = m.source]
                    ELSE st
             st2 == [st1 EXCEPT
                       !.current_at = IF st1.current_names = <<>> THEN m.at ELSE @,
                       !.current_names = Append(@, m.name),
                       !.current_aliases = IF m.alias # NoName
                                           THEN MapInsert(@, m.name, m.alias) ELSE @]
         IN IF m.form = "commonjs" \/ m.is_last
            THEN [emit_accumulated_exports(st2) EXCEPT !.current_source = NoSource]
            ELSE st2

RECURSIVE ScanExports(_, _)
ScanExports(st, ms) ==
    IF ms = <<>> THEN st
    ELSE ScanExports(ExportStep(st, Head(ms)), Tail(ms))

\* extract_exports: what the scan has pushed when the matches are exhausted.
extract_exports(nodes, prefix) ==
    ScanExports(ExportScanInit, ExportMatches(nodes, prefix)).exports

RECURSIVE get_module_symbols(_, _)

\* extract_namespaces: the namespaces below the root that are in no other
\* namespace, each with the symbols of its body.  The query asks for a name
\* that is an identifier; a namespace with another name gives no match.
extract_namespaces(nodes, prefix) ==
    LET D == Descendants(nodes, prefix)
        one(d) ==
            [type |-> "Namespace", name |-> d.node.name,
             content |-> get_module_symbols(d.node.body, d.at),
             is_exported |-> d.node.export,
             jsdoc |-> IF d.node.export THEN NoNode ELSE get_jsdoc(d.prev),
             at |-> d.at]
    IN Concat([i \in 1..Len(D) |->
                 IF /\ D[i].node.kind = "internal_module"
                    /\ D[i].node.name # NoName
                    /\ ~D[i].ns
                 THEN << one(D[i]) >> ELSE <<>>])

get_module_symbols(nodes, prefix) ==
    extract_imports(nodes, prefix)
        \o extract_symbols(nodes, prefix)
        \o extract_namespaces(nodes, prefix)
        \o extract_exports(nodes, prefix)

\* extract_default_export_name: the name captured by the first match of
\* `export default <identifier>` or of `export default declare <declaration>`
\* with a declaration that has a name field.
extract_default_export_name(nodes) ==
    LET D == Descendants(nodes, <<>>)
        hit(d) == \/ d.node.kind = "export_statement" /\ d.node.form = "default"
                  \/ d.node.kind = "declaration" /\ d.node.default /\ d.node.declare
                        /\ ~d.node.lexical
        hits == {i \in 1..Len(D) : hit(D[i])}
    IN IF hits = {} THEN NoName
       ELSE LET d == D[CHOOSE i \in hits : \A j \in hits : i <= j]
            IN IF d.node.kind = "declaration" THEN d.node.names[1] ELSE d.node.name

Malformed == [ok |-> FALSE, error |-> [kind |-> "Malformed",
                                       message |-> "Failed to parse source file"]]

\* The process was stopped by a failed expect(); nothing is returned.
Panicked == [ok |-> FALSE, error |-> [kind |-> "Panic",
                                      message |-> "Failed to get import identifier"]]

\* A plausible slip: the tree is not asked whether it has an error.
parse_typescript_file_lenient(content) ==
    IF ImportsPanic(content.nodes) THEN Panicked
    ELSE LET first == IF content.nodes = <<>> THEN NoNode ELSE content.nodes[1]
             jsdoc == get_jsdoc(first)
         IN [ok |-> TRUE,
             module |-> [jsdoc |-> IF jsdoc # NoNode /\ is_module_jsdoc(jsdoc)
                                   THEN jsdoc ELSE NoNode,
                         symbols |-> get_module_symbols(content.nodes, <<>>),
                         default_export_name |-> extract_default_export_name(content.nodes)]]

\* parse_typescript_file
parse_typescript_file(content) ==
    IF content.error THEN Malformed
    ELSE IF ImportsPanic(content.nodes) THEN Panicked
    ELSE LET first == IF content.nodes = <<>> THEN NoNode ELSE content.nodes[1]
             jsdoc == get_jsdoc(first)
         IN [ok |-> TRUE,
             module |-> [jsdoc |-> IF jsdoc # NoNode /\ is_module_jsdoc(jsdoc)
                                   THEN jsdoc ELSE NoNode,
                         symbols |-> get_module_symbols(content.nodes, <<>>),
                         default_export_name |-> extract_default_export_name(content.nodes)]]

\* ------------------------------------------------------- path resolution

\* normalise_file_path: the canonical path when it is a regular file.
normalise_file_path(files, path) ==
    LET c == canonicalize(files, path)
    IN IF c # NoPath /\ IsFile(files, c) THEN c ELSE NoPath

\* A plausible slip: the .ts variant is tried before the .d.ts variant.
Candidates_ts_first(files, resolved_path) ==
    << resolved_path,
       with_extension(resolved_path, TS),
       with_extension(resolved_path, DTS) >>
    \o (IF is_dir(files, resolved_path)
        THEN << resolved_path \o << <<"index", "d", "ts">> >>,
                resolved_path \o << <<"index", "ts">> >> >>
        ELSE <<>>)

\* The paths resolve_relative_import hands to normalise_file_path, in order.
Candidates(files, resolved_path) ==
    << resolved_path,
       with_extension(resolved_path, DTS),
       with_extension(resolved_path, TS) >>
    \o (IF is_dir(files, resolved_path)
        THEN << resolved_path \o << <<"index", "d", "ts">> >>,
                resolved_path \o << <<"index", "ts">> >> >>
        ELSE <<>>)

RECURSIVE FirstFile(_, _, _)
FirstFile(files, candidates, otherwise) ==
    IF candidates = <<>> THEN otherwise
    ELSE LET path == normalise_file_path(files, Head(candidates))
         IN IF path # NoPath THEN path
            ELSE FirstFile(files, Tail(candidates), otherwise)

\* A plausible slip: a specifier that matches no rule is dropped.
resolve_relative_import_dropping(files, module_path, import_path) ==
    IF IsRelative(import_path) /\ module_path # <<>>
    THEN FirstFile(files, Candidates(files, Join(Parent(module_path), import_path)), NoPath)
    ELSE NoPath

\* A plausible slip: every specifier is resolved against the importing file.
resolve_relative_import_any(files, module_path, import_path) ==
    IF module_path = <<>> THEN NoPath
    ELSE LET resolved_path == Join(Parent(module_path), import_path)
         IN FirstFile(files, Candidates(files, resolved_path), resolved_path)

\* resolve_relative_import: None for a specifier that is not relative, else
\* the first candidate that is a file, else the joined path itself.
resolve_relative_import(files, module_path, import_path) ==
    IF IsRelative(import_path)
    THEN IF module_path = <<>> THEN NoPath
         ELSE LET resolved_path == Join(Parent(module_path), import_path)
              IN FirstFile(files, Candidates(files, resolved_path), resolved_path)
    ELSE NoPath

\* The specifiers get_imported_module_paths looks at: the source of every
\* ModuleImport and of every ModuleExport that has one, in symbol order.
ImportedSpecifiers(module) ==
    LET S == module.symbols
    IN Concat([i \in 1..Len(S) |->
                 IF S[i].type = "ModuleImport" THEN << S[i].source_module >>
                 ELSE IF S[i].type = "ModuleExport" /\ S[i].source_module # NoSource
                 THEN << S[i].source_module >>
                 ELSE <<>>])

\* A plausible slip: only the imports are followed, not the re-exports.
get_imported_module_paths_imports_only(files, module, path) ==
    LET S == module.symbols
    IN Concat([i \in 1..Len(S) |->
                 IF S[i].type = "ModuleImport"
                       /\ resolve_relative_import(files, path, S[i].source_module) # NoPath
                 THEN << resolve_relative_import(files, path, S[i].source_module) >>
                 ELSE <<>>])

\* get_imported_module_paths
get_imported_module_paths(files, module, path) ==
    LET I == ImportedSpecifiers(module)
    IN Concat([i \in 1..Len(I) |->
                 LET resolved_path == resolve_relative_import(files, path, I[i])
                 IN IF resolved_path # NoPath THEN << resolved_path >> ELSE <<>>])

\* ------------------------------------------------------------- the inputs

Content(nodes) == [error |-> FALSE, nodes |-> nodes]
Broken == [error |-> TRUE, nodes |-> <<>>]      \* a content with a syntax error

SeqsUpTo(S, n) == UNION { [1..k -> S] : k \in 0..n }

\* The subsequences of s with at most n elements.
RECURSIVE SubSeqsUpTo(_, _)
SubSeqsUpTo(s, n) ==
    IF n = 0 \/ s = <<>> THEN { <<>> }
    ELSE SubSeqsUpTo(Tail(s), n)
         \cup { <<Head(s)>> \o t : t \in SubSeqsUpTo(Tail(s), n - 1) }

\* The statements the main file /p/a.ts is made of: it holds up to MaxStmts
\* of them, in this order.
AStmts ==
    << ImportStmt(<< ImportDefault("B") >>, SpecB),
       ImportStmt(<< ImportDefault("M") >>, SpecMissing),
       ImportStmt(<< ImportNamed(<< ImportSpecifier("J", NoName) >>) >>, SpecBjs),
       ImportStmt(<< ImportNamespace("E") >>, SpecExt),
       ExportBarrel(SpecU) >>

AContents == { Content(s) : s \in SubSeqsUpTo(AStmts, MaxStmts) } \cup { Broken }

\* The contents of /p/b.d.ts and /p/b.ts.
BContents ==
    { Content(<<>>),
      Content(<< ImportStmt(<< ImportDefault("A") >>, SpecA) >>),
      Broken }

\* The files of and next to the directory /p/u.
UFileSets == { {}, {FileUts}, {FileUdts, FileUts}, {FileUsib, FileUts} }

\* /p/u/index.ts imports '../a' and itself, /p/u.ts imports the bare 'a.ts'
\* and re-exports the bare 'ext'; /p/u/index.d.ts is a leaf.
UContent(path) ==
    IF path = FileUts
    THEN Content(<< ImportStmt(<< ImportDefault("A") >>, SpecUpA),
                    ExportNamespace("I", Specifier("./", << <<"index">> >>)) >>)
    ELSE IF path = FileUsib
    THEN Content(<< ImportStmt(<< ImportDefault("A") >>, SpecBareA),
                    ExportBarrel(SpecExt) >>)
    ELSE Content(<<>>)

EntryA == FileA
EntryLinkA == << L, <<"a", "ts">> >>          \* /l/a.ts, the same file as /p/a.ts
EntryB == FileBts                             \* missing when /p/b.ts is

EntryCandidates == { EntryA, EntryLinkA, EntryB }

Worlds ==
    { [path \in {FileA} \cup bs \cup us |->
          IF path = FileA THEN ac
          ELSE IF path \in {FileBdts, FileBts} THEN bc
          ELSE UContent(path)] :
        ac \in AContents,
        bs \in SUBSET {FileBdts, FileBts},
        bc \in BContents,
        us \in UFileSets }

\* ------------------------------------------------- ModuleSet::from_entrypoints
\* No file of Worlds stops the parser: every parse returns a Module or the
\* Malformed error.

NoModules == [path \in {} |-> NoNode]
NoError == [kind |-> "None", path |-> NoPath]
Running == [status |-> "Running", modules |-> NoModules, error |-> NoError]
NotParsed == [ok |-> FALSE, error |-> [kind |-> "None", message |-> ""]]

IoError(path) == [kind |-> "Io", path |-> path]
MalformedError == [kind |-> "Malformed", path |-> NoPath]

\* The state when the entry points have been pushed to the queue.
Init ==
    /\ fs \in Worlds
    /\ entry_points \in SeqsUpTo(EntryCandidates, MaxEntryPoints)
    /\ queue = entry_points
    /\ visited_paths = {}
    /\ modules = NoModules
    /\ current_path = NoPath
    /\ pc = "loop"
    /\ result = Running
    /\ reads = <<>>
    /\ resolutions = {}
    /\ src = Content(<<>>)
    /\ parsed = NotParsed
    /\ matches = <<>>
    /\ scan = ExportScanInit
    /\ manifest = NoManifest
    /\ metadata = NotExtracted
    /\ pkg_dirs = <<>>
    /\ dependant_path = 0
    /\ resolved = NotResolved

\* `continue` on a path that was visited before.
SkipVisited ==
    /\ pc = "loop"
    /\ queue # <<>>
    /\ Head(queue) \in visited_paths
    /\ queue' = Tail(queue)
    /\ UNCHANGED <<manifest, metadata, pkg_dirs, dependant_path, resolved,
                   matches, scan, fs, entry_points, visited_paths, modules, current_path, pc,
                   result, reads, resolutions, src, parsed>>

\* A plausible slip: the path is not inserted into visited_paths.
Visit_not_marking ==
    /\ pc = "loop"
    /\ queue # <<>>
    /\ queue' = Tail(queue)
    /\ current_path' = Head(queue)
    /\ pc' = "read"
    /\ UNCHANGED <<manifest, metadata, pkg_dirs, dependant_path, resolved,
                   matches, scan, fs, entry_points, visited_paths, modules, result, reads,
                   resolutions, src, parsed>>

\* pop_front of a new path, which is marked as visited.
Visit ==
    /\ pc = "loop"
    /\ queue # <<>>
    /\ Head(queue) \notin visited_paths
    /\ queue' = Tail(queue)
    /\ current_path' = Head(queue)
    /\ visited_paths' = visited_paths \cup {Head(queue)}
    /\ pc' = "read"
    /\ UNCHANGED <<manifest, metadata, pkg_dirs, dependant_path, resolved,
                   matches, scan, fs, entry_points, modules, result, reads, resolutions, src, parsed>>

\* read_to_string fails: the Io error naming the path is returned.
ReadFail ==
    /\ pc = "read"
    /\ ~CanRead(fs, current_path)
    /\ reads' = Append(reads, current_path)
    /\ result' = [status |-> "Err", modules |-> NoModules, error |-> IoError(current_path)]
    /\ pc' = "done"
    /\ UNCHANGED <<manifest, metadata, pkg_dirs, dependant_path, resolved,
                   matches, scan, fs, entry_points, queue, visited_paths, modules, current_path,
                   resolutions, src, parsed>>

\* A plausible slip: a file that does not parse is skipped.
ParseFail_skipping ==
    /\ pc = "read"
    /\ CanRead(fs, current_path)
    /\ parse_typescript_file(ReadToString(fs, current_path)) = Malformed
    /\ reads' = Append(reads, current_path)
    /\ pc' = "loop"
    /\ UNCHANGED <<manifest, metadata, pkg_dirs, dependant_path, resolved,
                   matches, scan, fs, entry_points, queue, visited_paths, modules, current_path,
                   result, resolutions, src, parsed>>

\* parse_typescript_file fails: its Malformed error is returned.
ParseFail ==
    /\ pc = "read"
    /\ CanRead(fs, current_path)
    /\ parse_typescript_file(ReadToString(fs, current_path)) = Malformed
    /\ reads' = Append(reads, current_path)
    /\ result' = [status |-> "Err", modules |-> NoModules, error |-> MalformedError]
    /\ pc' = "done"
    /\ UNCHANGED <<manifest, metadata, pkg_dirs, dependant_path, resolved,
                   matches, scan, fs, entry_points, queue, visited_paths, modules, current_path,
                   resolutions, src, parsed>>

\* The calls of resolve_relative_import made for one module.
Resolutions(files, module, path) ==
    LET I == ImportedSpecifiers(module)
    IN { [module_path |-> path, import_path |-> I[i],
          joined |-> Join(Parent(path), I[i]),
          result |-> resolve_relative_import(files, path, I[i])] : i \in 1..Len(I) }

\* A plausible slip: the dependencies are pushed to the front of the queue.
Insert_pushing_front ==
    /\ pc = "read"
    /\ CanRead(fs, current_path)
    /\ LET r == parse_typescript_file(ReadToString(fs, current_path))
       IN /\ r.ok
          /\ modules' = MapInsert(modules, current_path, r.module)
          /\ queue' = get_imported_module_paths(fs, r.module, current_path) \o queue
          /\ resolutions' = resolutions \cup Resolutions(fs, r.module, current_path)
    /\ reads' = Append(reads, current_path)
    /\ pc' = "loop"
    /\ UNCHANGED <<manifest, metadata, pkg_dirs, dependant_path, resolved,
                   matches, scan, fs, entry_points, visited_paths, current_path, result, src, parsed>>

\* The module is inserted and its dependencies are pushed to the queue.
Insert ==
    /\ pc = "read"
    /\ CanRead(fs, current_path)
    /\ LET r == parse_typescript_file(ReadToString(fs, current_path))
       IN /\ r.ok
          /\ modules' = MapInsert(modules, current_path, r.module)
          /\ queue' = queue \o get_imported_module_paths(fs, r.module, current_path)
          /\ resolutions' = resolutions \cup Resolutions(fs, r.module, current_path)
    /\ reads' = Append(reads, current_path)
    /\ pc' = "loop"
    /\ UNCHANGED <<manifest, metadata, pkg_dirs, dependant_path, resolved,
                   matches, scan, fs, entry_points, visited_paths, current_path, result, src, parsed>>

\* The queue is empty: Ok(ModuleSet(modules)).
Finish ==
    /\ pc = "loop"
    /\ queue = <<>>
    /\ result' = [status |-> "Ok", modules |-> modules, error |-> NoError]
    /\ pc' = "done"
    /\ UNCHANGED <<manifest, metadata, pkg_dirs, dependant_path, resolved,
                   matches, scan, fs, entry_points, queue, visited_paths, modules, current_path,
                   reads, resolutions, src, parsed>>

Next == SkipVisited \/ Visit \/ ReadFail \/ ParseFail \/ Insert \/ Finish

Spec == Init /\ [][Next]_vars

\* The while loop of from_entrypoints run to its end on a queue, a visited
\* set and a map: the value the call returns.
RECURSIVE RunQueue(_, _, _, _)
RunQueue(files, q, visited, mods) ==
    IF q = <<>> THEN [status |-> "Ok", modules |-> mods, error |-> NoError]
    ELSE IF Head(q) \in visited THEN RunQueue(files, Tail(q), visited, mods)
    ELSE IF ~CanRead(files, Head(q))
    THEN [status |-> "Err", modules |-> NoModules, error |-> IoError(Head(q))]
    ELSE LET r == parse_typescript_file(ReadToString(files, Head(q)))
         IN IF ~r.ok
            THEN [status |-> "Err", modules |-> NoModules, error |-> MalformedError]
            ELSE RunQueue(files,
                          Tail(q) \o get_imported_module_paths(files, r.module, Head(q)),
                          visited \cup {Head(q)},
                          MapInsert(mods, Head(q), r.module))

\* A plausible slip: only the first entry point is pushed to the queue.
from_entrypoints_first_only(files, entries) ==
    RunQueue(files, IF entries = <<>> THEN <<>> ELSE << Head(entries) >>, {}, NoModules)

\* ModuleSet::from_entrypoints as a function of the files and of the entry
\* points in their iteration order.
from_entrypoints(files, entries) == RunQueue(files, entries, {}, NoModules)

\* ------------------------------------------------- parse_typescript_file alone

\* The top-level nodes of the files given to the parser.
ParseNodes ==
    { ImportStmt(<< ImportDefault("D"),
                    ImportNamed(<< ImportSpecifier("N", "M"),
                                   ImportSpecifier("O", NoName) >>) >>, SpecB),
      ImportStmt(<< ImportNamed(<< TypeImportSpecifier("T", NoName) >>) >>, SpecA),
      Decl(<<"V">>, TRUE, TRUE),
      Decl(<<"C", "K">>, FALSE, FALSE),
      Comment(TRUE, FALSE),
      Comment(TRUE, TRUE),
      Comment(FALSE, FALSE),
      NamespaceDecl("S",
          << ExportBarrel(SpecU),
             NamespaceDecl("R", << Decl(<<"W">>, TRUE, TRUE) >>, TRUE),
             Decl(<<"Q">>, FALSE, TRUE),
             ImportStmt(<< ImportNamespace("G") >>, SpecExt) >>, FALSE),
      ExportClause(<< ExportSpecifier("a", NoName), ExportSpecifier("b", "c") >>, SpecA),
      ExportClause(<< ExportSpecifier("t", NoName), Comment(FALSE, FALSE) >>, SpecB),
      ExportClause(<< ExportSpecifier("l", NoName) >>, NoSource),
      ExportClause(<< ExportSpecifier("m", NoName), Comment(FALSE, FALSE) >>, NoSource),
      ExportBarrel(SpecU),
      ExportNamespace("X", SpecExt),
      ExportCommonJs("f"),
      ExportDefault("e"),
      DefaultDecl(<<"g">>, FALSE),
      DefaultDecl(<<"x">>, TRUE),
      NamespaceDecl(NoName, << Decl(<<"Z">>, FALSE, TRUE) >>, FALSE) }

ParseInputs == { Content(s) : s \in SeqsUpTo(ParseNodes, MaxNodes) } \cup { Broken }

ParseInit ==
    /\ src \in ParseInputs
    /\ parsed = NotParsed
    /\ pc = "parse"
    /\ fs = [path \in {} |-> Broken]
    /\ entry_points = <<>>
    /\ queue = <<>>
    /\ visited_paths = {}
    /\ modules = NoModules
    /\ current_path = NoPath
    /\ result = Running
    /\ reads = <<>>
    /\ resolutions = {}
    /\ matches = <<>>
    /\ scan = ExportScanInit
    /\ manifest = NoManifest
    /\ metadata = NotExtracted
    /\ pkg_dirs = <<>>
    /\ dependant_path = 0
    /\ resolved = NotResolved

\* One call of parse_typescript_file.
ParseFile ==
    /\ pc = "parse"
    /\ parsed' = parse_typescript_file(src)
    /\ pc' = "parsed"
    /\ UNCHANGED <<manifest, metadata, pkg_dirs, dependant_path, resolved,
                   matches, scan, fs, entry_points, queue, visited_paths, modules, current_path,
                   result, reads, resolutions, src>>

ParseNext == ParseFile

ParseSpec == ParseInit /\ [][ParseNext]_vars

\* ------------------------------------------ parse_typescript_file, called twice

\* The longest file that is parsed twice.
MaxReparseNodes == 2

ReparseInputs ==
    { Content(s) : s \in SeqsUpTo(ParseNodes, MaxReparseNodes) } \cup { Broken }

ReparseInit ==
    /\ src \in ReparseInputs
    /\ parsed = NotParsed
    /\ pc = "parse"
    /\ fs = [path \in {} |-> Broken]
    /\ entry_points = <<>>
    /\ queue = <<>>
    /\ visited_paths = {}
    /\ modules = NoModules
    /\ current_path = NoPath
    /\ result = Running
    /\ reads = <<>>
    /\ resolutions = {}
    /\ matches = <<>>
    /\ scan = ExportScanInit
    /\ manifest = NoManifest
    /\ metadata = NotExtracted
    /\ pkg_dirs = <<>>
    /\ dependant_path = 0
    /\ resolved = NotResolved

\* A plausible slip: the symbols are collected in a vector that outlives the
\* call, so that the second run adds its symbols to those of the first.
ParseAgain_accumulating ==
    /\ pc = "parsed"
    /\ parsed' = LET again == parse_typescript_file(src)
                 IN IF parsed.ok /\ again.ok
                    THEN [again EXCEPT !.module.symbols = parsed.module.symbols \o @]
                    ELSE again
    /\ pc' = "reparsed"
    /\ UNCHANGED <<manifest, metadata, pkg_dirs, dependant_path, resolved,
                   matches, scan, fs, entry_points, queue, visited_paths, modules, current_path,
                   result, reads, resolutions, src>>

\* The second call of parse_typescript_file on the same content, with the
\* parser of the first: parser.parse gets no old tree, and the queries and
\* their cursors are made anew in each call.
ParseAgain ==
    /\ pc = "parsed"
    /\ parsed' = parse_typescript_file(src)
    /\ pc' = "reparsed"
    /\ UNCHANGED <<manifest, metadata, pkg_dirs, dependant_path, resolved,
                   matches, scan, fs, entry_points, queue, visited_paths, modules, current_path,
                   result, reads, resolutions, src>>

ReparseNext == ParseFile \/ ParseAgain

ReparseSpec == ReparseInit /\ [][ReparseNext]_vars

\* ------------------------------------------------- extract_exports, match by match

\* The files given to the scan: those of ParseInputs that are made of
\* export statements and namespaces.
ScanNodes == { n \in ParseNodes : n.kind \in {"export_statement", "internal_module"} }

ScanInputs == { Content(s) : s \in SeqsUpTo(ScanNodes, MaxNodes) }

\* The cursor is created over the root and the buffers are empty.
ScanInit ==
    /\ src \in ScanInputs
    /\ matches = ExportMatches(src.nodes, <<>>)
    /\ scan = ExportScanInit
    /\ manifest = NoManifest
    /\ metadata = NotExtracted
    /\ pkg_dirs = <<>>
    /\ dependant_path = 0
    /\ resolved = NotResolved
    /\ pc = "scan"
    /\ parsed = NotParsed
    /\ fs = [path \in {} |-> Broken]
    /\ entry_points = <<>>
    /\ queue = <<>>
    /\ visited_paths = {}
    /\ modules = NoModules
    /\ current_path = NoPath
    /\ result = Running
    /\ reads = <<>>
    /\ resolutions = {}

\* The closure of matches.for_each runs on the next match.
ScanMatch ==
    /\ pc = "scan"
    /\ matches # <<>>
    /\ scan' = ExportStep(scan, Head(matches))
    /\ matches' = Tail(matches)
    /\ UNCHANGED <<manifest, metadata, pkg_dirs, dependant_path, resolved,
                   fs, entry_points, queue, visited_paths, modules, current_path,
                   pc, result, reads, resolutions, src, parsed>>

\* The matches are exhausted: exports is returned.
ScanEnd ==
    /\ pc = "scan"
    /\ matches = <<>>
    /\ pc' = "scanned"
    /\ UNCHANGED <<manifest, metadata, pkg_dirs, dependant_path, resolved,
                   fs, entry_points, queue, visited_paths, modules, current_path,
                   result, reads, resolutions, src, parsed, matches, scan>>

ScanNext == ScanMatch \/ ScanEnd

ScanSpec == ScanInit /\ [][ScanNext]_vars

\* ------------------------------------------------------- extract_metadata
\* A JSON value is [shape |-> "absent"] for a key that is not there,
\* [shape |-> "null"], [shape |-> "array"], [shape |-> "string", value] or
\* [shape |-> "map", entries] with entries a function from keys to JSON
\* values.  A manifest is the package.json with its fields exports, types and
\* typings (name and version are there and are strings).  A path string is
\* [lead, file]: lead is the "./" it may start with.

\* Option<String>::None
NoString == [lead |-> "<none>", file |-> ""]

\* The values of a subpath in the exports map of a manifest.
ExportValues ==
    LET str(file) == [shape |-> "string", value |-> [lead |-> "./", file |-> file]]
        map(entries) == [shape |-> "map", entries |-> entries]
    IN { str("main.js"),
         map([k \in {"types"} |-> str("sub.d.ts")]),
         map([k \in {"types", "import"} |->
                IF k = "types" THEN str("cond.d.ts") ELSE str("main.js")]),
         map([k \in {"types"} |-> map([c \in {"import"} |-> str("esm.d.ts")])]),
         map([k \in {"import"} |-> str("main.js")]),
         [shape |-> "null"] }

Manifests ==
    LET keys == {".", "./sub"}
        maps == UNION { [K -> ExportValues] : K \in SUBSET keys }
        exports == { [shape |-> "absent"], [shape |-> "null"], [shape |-> "array"],
                     [shape |-> "string", value |-> [lead |-> "./", file |-> "main.js"]] }
                   \cup { [shape |-> "map", entries |-> m] : m \in maps }
        types == { NoString, [lead |-> "", file |-> "t.d.ts"] }
        typings == { NoString, [lead |-> "./", file |-> "y.d.ts"] }
    IN [exports : exports, types : types, typings : typings]

\* serde, ExportConfig (untagged): a string is Simple, a map whose values
\* are all ExportConfig is Map, and nothing else is an ExportConfig.
RECURSIVE DeserializeExportConfig(_)
DeserializeExportConfig(json) ==
    IF json.shape = "string" THEN [ok |-> TRUE, variant |-> "Simple", value |-> json.value]
    ELSE IF json.shape = "map"
    THEN LET each == [k \in DOMAIN json.entries |-> DeserializeExportConfig(json.entries[k])]
         IN IF \A k \in DOMAIN each : each[k].ok
            THEN [ok |-> TRUE, variant |-> "Map", entries |-> each]
            ELSE [ok |-> FALSE]
    ELSE [ok |-> FALSE]

\* serde_json::from_str::<PackageJson>: an Option field is None for a key
\* that is absent (serde default) and for null.
from_str(json) ==
    IF json.exports.shape \in {"absent", "null"}
    THEN [ok |-> TRUE, exports |-> [ok |-> TRUE, variant |-> "None"], types |-> json.types, typings |-> json.typings]
    ELSE LET config == DeserializeExportConfig(json.exports)
         IN IF config.ok
            THEN [ok |-> TRUE, exports |-> config, types |-> json.types,
                  typings |-> json.typings]
            ELSE [ok |-> FALSE]

\* A plausible slip: types is looked at before exports.
get_entry_point_types_first(package_json, path) ==
    IF package_json.types # NoString
    THEN [subpath \in {"."} |->
            [dir |-> path, lead |-> package_json.types.lead, file |-> package_json.types.file]]
    ELSE IF package_json.exports.variant # "None"
    THEN IF package_json.exports.variant = "Map"
         THEN LET export_map == package_json.exports.entries
                  typed == { subpath \in DOMAIN export_map :
                               /\ export_map[subpath].variant = "Map"
                               /\ "types" \in DOMAIN export_map[subpath].entries
                               /\ export_map[subpath].entries["types"].variant = "Simple" }
              IN [subpath \in typed |->
                    [dir |-> path, lead |-> "",
                     file |-> export_map[subpath].entries["types"].value.file]]
         ELSE [subpath \in {} |-> NoPath]
    ELSE [subpath \in {} |-> NoPath]

\* get_entry_point: the HashMap from subpath to the path of its types file.
get_entry_point(package_json, path) ==
    IF package_json.exports.variant # "None"
    THEN IF package_json.exports.variant = "Map"
         THEN LET export_map == package_json.exports.entries
                  typed == { subpath \in DOMAIN export_map :
                               /\ export_map[subpath].variant = "Map"
                               /\ "types" \in DOMAIN export_map[subpath].entries
                               /\ export_map[subpath].entries["types"].variant = "Simple" }
              IN [subpath \in typed |->
                    \* path.join(types_path.trim_start_matches("./"))
                    [dir |-> path, lead |-> "",
                     file |-> export_map[subpath].entries["types"].value.file]]
         ELSE [subpath \in {} |-> NoPath]
    ELSE LET types == IF package_json.types # NoString THEN package_json.types
                      ELSE package_json.typings
         IN IF types # NoString
            THEN [subpath \in {"."} |->
                    [dir |-> path, lead |-> types.lead, file |-> types.file]]
            ELSE [subpath \in {} |-> NoPath]

\* extract_metadata, as far as the entry points go.
extract_metadata(json, path) ==
    LET package_json == from_str(json)
    IN IF package_json.ok
       THEN [ok |-> TRUE, entry_point |-> get_entry_point(package_json, path)]
       ELSE [ok |-> FALSE, error |-> "MalformedManifest"]

MetadataInit ==
    /\ manifest \in Manifests
    /\ metadata = NotExtracted
    /\ pc = "extract"
    /\ pkg_dirs = <<>>
    /\ dependant_path = 0
    /\ resolved = NotResolved
    /\ src = Broken
    /\ parsed = NotParsed
    /\ fs = [path \in {} |-> Broken]
    /\ entry_points = <<>>
    /\ queue = <<>>
    /\ visited_paths = {}
    /\ modules = NoModules
    /\ current_path = NoPath
    /\ result = Running
    /\ reads = <<>>
    /\ resolutions = {}
    /\ matches = <<>>
    /\ scan = ExportScanInit

\* One call of extract_metadata on the directory of the library.
ExtractMetadata ==
    /\ pc = "extract"
    /\ metadata' = extract_metadata(manifest, "pkg")
    /\ pc' = "extracted"
    /\ UNCHANGED <<manifest, pkg_dirs, dependant_path, resolved, matches, scan, fs,
                   entry_points, queue, visited_paths, modules, current_path,
                   result, reads, resolutions, src, parsed>>

MetadataSpec == MetadataInit /\ [][ExtractMetadata]_vars

\* ------------------------------------------------ resolve_dependency_path
\* pkg_dirs are the directories on the way from the end of the parent()
\* chain (the root, or the empty path of a relative dependant_path) down to
\* the dependant: for each, whether <dir>/package.json exists and whether
\* <dir>/node_modules/<name> exists.  dependant_path is the index of the
\* directory of the running call; the path returned is named by the index
\* of the directory of its node_modules.

\* The longest chain of directories above and including the dependant.
MaxDepth == 3

ResolveInit ==
    /\ pkg_dirs \in SeqsUpTo([manifest : BOOLEAN, dependency : BOOLEAN], MaxDepth)
    /\ pkg_dirs # <<>>
    /\ dependant_path = Len(pkg_dirs)
    /\ resolved = NotResolved
    /\ pc = "resolve"
    /\ manifest = NoManifest
    /\ metadata = NotExtracted
    /\ src = Broken
    /\ parsed = NotParsed
    /\ fs = [path \in {} |-> Broken]
    /\ entry_points = <<>>
    /\ queue = <<>>
    /\ visited_paths = {}
    /\ modules = NoModules
    /\ current_path = NoPath
    /\ result = Running
    /\ reads = <<>>
    /\ resolutions = {}
    /\ matches = <<>>
    /\ scan = ExportScanInit

\* A plausible slip: a directory without package.json is walked through.
recursive_resolve_dependency_path_any_dir ==
    /\ pc = "resolve"
    /\ IF pkg_dirs[dependant_path].dependency
       THEN /\ resolved' = [ok |-> TRUE, node_modules_path |-> dependant_path]
            /\ pc' = "resolved"
            /\ UNCHANGED dependant_path
       ELSE IF dependant_path = 1
       THEN /\ resolved' = [ok |-> FALSE, error |-> "MissingDependency"]
            /\ pc' = "resolved"
            /\ UNCHANGED dependant_path
       ELSE /\ dependant_path' = dependant_path - 1
            /\ UNCHANGED <<resolved, pc>>
    /\ UNCHANGED <<manifest, metadata, pkg_dirs, matches, scan, fs, entry_points, queue,
                   visited_paths, modules, current_path, result, reads, resolutions,
                   src, parsed>>

\* One call of recursive_resolve_dependency_path; resolve_dependency_path
\* turns the None of the last call into MissingDependency(name).
recursive_resolve_dependency_path ==
    /\ pc = "resolve"
    /\ IF ~pkg_dirs[dependant_path].manifest
       THEN /\ resolved' = [ok |-> FALSE, error |-> "MissingDependency"]
            /\ pc' = "resolved"
            /\ UNCHANGED dependant_path
       ELSE IF pkg_dirs[dependant_path].dependency
       THEN /\ resolved' = [ok |-> TRUE, node_modules_path |-> dependant_path]
            /\ pc' = "resolved"
            /\ UNCHANGED dependant_path
       ELSE IF dependant_path = 1
       \* dependant_path.parent() is None
       THEN /\ resolved' = [ok |-> FALSE, error |-> "MissingDependency"]
            /\ pc' = "resolved"
            /\ UNCHANGED dependant_path
       ELSE /\ dependant_path' = dependant_path - 1
            /\ UNCHANGED <<resolved, pc>>
    /\ UNCHANGED <<manifest, metadata, pkg_dirs, matches, scan, fs, entry_points, queue,
                   visited_paths, modules, current_path, result, reads, resolutions,
                   src, parsed>>

ResolveSpec == ResolveInit /\ [][recursive_resolve_dependency_path]_vars

\* ------------------------------------------------------------------ claims

Range(s) == { s[i] : i \in 1..Len(s) }

\* A resolution in which no candidate is an existing regular file.
Unresolvable(r) ==
    /\ IsRelative(r.import_path)
    /\ \A path \in { r.joined, with_extension(r.joined, DTS), with_extension(r.joined, TS),
                     r.joined \o << <<"index", "d", "ts">> >>,
                     r.joined \o << <<"index", "ts">> >> } :
          ~IsFile(fs, canonicalize(fs, path))

\* The read or the parse of a path fails.
Fails(path) ==
    \/ ~CanRead(fs, path)
    \/ ~parse_typescript_file(ReadToString(fs, path)).ok

\* The paths a run can ever put into its queue: the entry points, the files
\* and the joined paths of the specifiers of the files.
RECURSIVE SourcesOf(_)
SourcesOf(nodes) ==
    UNION { IF nodes[i].kind \in {"import_statement", "export_statement"}
            THEN { nodes[i].source }
            ELSE IF nodes[i].kind = "internal_module" THEN SourcesOf(nodes[i].body)
            ELSE {} : i \in 1..Len(nodes) }

AllSpecifiers == UNION { SourcesOf(fs[path].nodes) : path \in DOMAIN fs }

AllPaths ==
    Range(entry_points) \cup DOMAIN fs
        \cup { Join(Parent(path), s) :
                 path \in Range(entry_points) \cup DOMAIN fs, s \in AllSpecifiers }

\* The most paths one module can add to the queue.
MaxEdges == Cardinality(AllSpecifiers) + 1

\* What is left to do: the paths not read yet, the queue and the position.
Measure ==
    2 * MaxEdges * Cardinality(AllPaths \ Range(reads))
        + 2 * Len(queue)
        + (IF pc = "read" THEN 2 ELSE IF pc = "loop" THEN 1 ELSE 0)

\* The conditions under which the loop takes its next step.
SomeStepPossible ==
    \/ pc = "loop" /\ queue = <<>>
    \/ pc = "loop" /\ queue # <<>> /\ Head(queue) \in visited_paths
    \/ pc = "loop" /\ queue # <<>> /\ Head(queue) \notin visited_paths
    \/ pc = "read" /\ ~CanRead(fs, current_path)
    \/ pc = "read" /\ CanRead(fs, current_path)
          /\ ~parse_typescript_file(ReadToString(fs, current_path)).ok
    \/ pc = "read" /\ CanRead(fs, current_path)
          /\ parse_typescript_file(ReadToString(fs, current_path)).ok

\* C1: from_entrypoints terminates for every set of files and entry points,
\* import cycles and self-imports included: every step of the loop lowers a
\* natural number, and the loop stops only with the queue empty or with an
\* error.
C1_Terminates ==
    /\ [][Measure' < Measure]_vars
    /\ [](pc = "done" => (result.status = "Err" \/ queue = <<>>))
    /\ [](pc # "done" => SomeStepPossible)

\* A finished run over files that import each other or themselves.
C1_Witness ==
    /\ pc = "done"
    /\ result.status = "Ok"
    /\ \E r1, r2 \in resolutions :
          r1.result = r2.module_path /\ r2.result = r1.module_path

\* C2: no two keys of the returned ModuleSet denote the same physical file.
C2_NoFileTwice ==
    result.status = "Ok" =>
        \A p1, p2 \in DOMAIN result.modules :
            canonicalize(fs, p1) = canonicalize(fs, p2) => p1 = p2

\* The paths the relative imports and sourced exports of the module at path
\* resolve to.
ResolvedEdges(path) ==
    LET S == parse_typescript_file(ReadToString(fs, path)).module.symbols
    IN { resolve_relative_import(fs, path, S[i].source_module) :
           i \in { j \in 1..Len(S) :
                     \/ S[j].type = "ModuleImport"
                     \/ S[j].type = "ModuleExport" /\ S[j].source_module # NoSource } }
       \ { NoPath }

\* The least set that contains S and the resolved edges of its members.
RECURSIVE ClosureOf(_)
ClosureOf(S) ==
    LET T == S \cup UNION { ResolvedEdges(path) : path \in { q \in S : ~Fails(q) } }
    IN IF T = S THEN S ELSE ClosureOf(T)

\* C3: on success the keys are exactly the reachability closure of the
\* entry-point paths under the resolved relative imports and sourced exports.
C3_KeysAreClosure ==
    result.status = "Ok" => DOMAIN result.modules = ClosureOf(Range(entry_points))

\* A successful run that followed an import and a re-export.
C3_Witness ==
    /\ result.status = "Ok"
    /\ FileUts \in DOMAIN result.modules
    /\ FileBdts \in DOMAIN result.modules
    /\ FileA \in DOMAIN result.modules

\* C4: each distinct path is read at most once during one call.
C4_ReadOnce ==
    \A i, j \in 1..Len(reads) : reads[i] = reads[j] => i = j

\* A finished run in which one path was enqueued by two importers.
C4_Witness ==
    /\ pc = "done"
    /\ result.status = "Ok"
    /\ \E r1, r2 \in resolutions :
          r1 # r2 /\ r1.result = r2.result /\ r1.result # NoPath

\* C5: a failing read or parse ends the call at once with that error and
\* without a ModuleSet; no file is read after the failing one.
C5_ErrorAborts ==
    \A i \in 1..Len(reads) :
        Fails(reads[i]) =>
            /\ i = Len(reads)
            /\ pc = "done"
            /\ result.status = "Err"
            /\ result.modules = NoModules
            /\ result.error = IF CanRead(fs, reads[i]) THEN MalformedError
                              ELSE IoError(reads[i])

\* A failure after some module had been parsed and inserted.
C5_Witness ==
    /\ result.status = "Err"
    /\ DOMAIN modules # {}

\* C6: an unresolvable relative specifier yields the joined path, which is
\* enqueued; the call fails, with the Io error of that path when it is the
\* one read.  The same for an entry point that does not exist.
C6_UnresolvedIsDeferred ==
    /\ \A r \in resolutions : Unresolvable(r) => r.result = r.joined
    /\ pc = "done" =>
          \A path \in { r.joined : r \in { x \in resolutions : Unresolvable(x) } }
                      \cup { e \in Range(entry_points) : ~CanRead(fs, e) } :
              /\ result.status = "Err"
              /\ path \in Range(reads) => result.error = IoError(path)

\* The call failed on the joined path of an unresolvable import.
C6_Witness ==
    /\ pc = "done"
    /\ \E r \in resolutions : Unresolvable(r) /\ result.error = IoError(r.joined)

\* C7: a specifier that starts neither with './' nor with '../' is never
\* resolved, enqueued or read, and the import or export carrying it stays a
\* symbol of the importing module.
C7_BareIgnored ==
    /\ \A r \in resolutions : ~IsRelative(r.import_path) => r.result = NoPath
    /\ \A path \in Range(queue) \cup visited_paths :
          \/ path \in Range(entry_points)
          \/ \E r \in resolutions : IsRelative(r.import_path) /\ r.result = path
    /\ \A path \in DOMAIN modules :
          \A i \in 1..Len(ReadToString(fs, path).nodes) :
              LET n == ReadToString(fs, path).nodes[i]
              IN \A kind \in {"import_statement", "export_statement"} :
                    n.kind = kind /\ n.source # NoSource /\ ~IsRelative(n.source) =>
                      \E k \in 1..Len(modules[path].symbols) :
                        /\ modules[path].symbols[k].type =
                              (IF kind = "import_statement" THEN "ModuleImport"
                               ELSE "ModuleExport")
                        /\ modules[path].symbols[k].source_module = n.source

\* A successful run over /p/u.ts, which has a bare import of 'a.ts', a name
\* that exists next to it, and a bare re-export.
C7_Witness ==
    /\ result.status = "Ok"
    /\ FileUsib \in DOMAIN result.modules
    /\ \E r1, r2 \in resolutions :
          /\ r1.module_path = FileUsib /\ r1.import_path = SpecBareA
          /\ r2.module_path = FileUsib /\ r2.import_path = SpecExt

\* The index of the first candidate that is an existing regular file, 0 if none.
FirstHit(candidates) ==
    LET hits == { k \in 1..Len(candidates) :
                    IsFile(fs, canonicalize(fs, candidates[k])) }
    IN IF hits = {} THEN 0 ELSE CHOOSE k \in hits : \A j \in hits : k <= j

CategoryRank(symbol) ==
    IF symbol.type = "ModuleImport" THEN 1
    ELSE IF symbol.type = "Symbol" THEN 2
    ELSE IF symbol.type = "Namespace" THEN 3
    ELSE 4

\* A symbol list is grouped by category and, inside a category, follows the
\* source; the content of every namespace in it likewise.
RECURSIVE InCategoryAndSourceOrder(_)
InCategoryAndSourceOrder(symbols) ==
    /\ \A i, j \in 1..Len(symbols) :
          i < j =>
            /\ CategoryRank(symbols[i]) <= CategoryRank(symbols[j])
            /\ CategoryRank(symbols[i]) = CategoryRank(symbols[j])
                  => ~PosLess(symbols[j].at, symbols[i].at)
    /\ \A i \in 1..Len(symbols) :
          symbols[i].type = "Namespace"
              => InCategoryAndSourceOrder(symbols[i].content)

\* C10: for every file, Module.symbols and every Namespace.content list the
\* imports first, then the declarations, then the namespaces, then the
\* exports, and the entries of each category are in source order.
C10_SymbolsOrdered ==
    (pc = "parsed" /\ parsed.ok) => InCategoryAndSourceOrder(parsed.module.symbols)

\* The symbols of a list all come from statements directly in the scope at
\* prefix, and those of every namespace in it from its own body.
RECURSIVE InOwnScope(_, _)
InOwnScope(symbols, prefix) ==
    \A i \in 1..Len(symbols) :
        /\ Len(symbols[i].at) = Len(prefix) + 1
        /\ SubSeq(symbols[i].at, 1, Len(prefix)) = prefix
        /\ symbols[i].type = "Namespace"
              => InOwnScope(symbols[i].content, symbols[i].at)

\* C11: nothing that is lexically inside a namespace body (declaration, nested
\* namespace, import, export) is among the top-level symbols of the module or
\* of an enclosing namespace; it is only in the content of its innermost
\* enclosing namespace.
C11_NamespaceScoped ==
    (pc = "parsed" /\ parsed.ok) => InOwnScope(parsed.module.symbols, <<>>)

\* The symbols of a list and of the namespaces in it, at every depth.
RECURSIVE SymbolsWithin(_)
SymbolsWithin(symbols) ==
    Concat([i \in 1..Len(symbols) |->
              << symbols[i] >>
              \o (IF symbols[i].type = "Namespace"
                  THEN SymbolsWithin(symbols[i].content) ELSE <<>>)])

\* The text of the file given to the parser.
FileText == TextOfRange(src.nodes, <<>>, 1, Len(src.nodes))

\* C12: the source_code of every extracted Symbol is one contiguous, non-empty
\* piece of the text of the file.
C12_SourceIsSubstring ==
    (pc = "parsed" /\ parsed.ok) =>
        \A symbol \in Range(SymbolsWithin(parsed.module.symbols)) :
            symbol.type = "Symbol" =>
                \E i, j \in 1..Len(FileText) :
                    i <= j /\ symbol.source_code = SubSeq(FileText, i, j)

\* A Symbol whose source code spans a comment and a declaration, behind a
\* comment that is not part of it.
C12_Witness ==
    /\ pc = "parsed" /\ parsed.ok
    /\ Len(src.nodes) = 3
    /\ src.nodes[1].kind = "comment"
    /\ \E k \in 1..Len(parsed.module.symbols) :
          /\ parsed.module.symbols[k].type = "Symbol"
          /\ parsed.module.symbols[k].at = <<3>>
          /\ Len(parsed.module.symbols[k].source_code) = 2

\* The Symbols of the declarations directly in a scope start at the JSDoc
\* comment right before the declaration when that comment is not
\* module-level, else at the declaration; the same in every namespace.
RECURSIVE StartsAtJsdoc(_, _, _)
StartsAtJsdoc(nodes, prefix, symbols) ==
    \A i \in 1..Len(nodes) :
        LET at == prefix \o <<i>>
            own == { k \in 1..Len(symbols) : symbols[k].at = at }
            documented == /\ i > 1
                          /\ nodes[i - 1].kind = "comment"
                          /\ nodes[i - 1].jsdoc
                          /\ ~nodes[i - 1].tag
        IN /\ nodes[i].kind = "declaration" =>
                /\ { symbols[k].name : k \in own } = Range(nodes[i].names)
                /\ \A k \in own :
                      /\ symbols[k].type = "Symbol"
                      /\ symbols[k].source_code # <<>>
                      /\ Head(symbols[k].source_code).at =
                            (IF documented THEN prefix \o <<i - 1>> ELSE at)
                      /\ Last(symbols[k].source_code).at = at
           /\ nodes[i].kind = "internal_module" =>
                \A k \in own :
                    symbols[k].type = "Namespace"
                        => StartsAtJsdoc(nodes[i].body, at, symbols[k].content)

\* C13: the source_code of a Symbol starts at the JSDoc comment that is the
\* previous sibling of the widened declaration, unless that comment has
\* @file, @fileoverview or @module; behind a module-level JSDoc, another
\* comment or no comment it starts at the declaration.
C13_JsdocIncluded ==
    (pc = "parsed" /\ parsed.ok) =>
        StartsAtJsdoc(src.nodes, <<>>, parsed.module.symbols)

\* A declaration behind a module-level JSDoc comment, whose source code is
\* the declaration alone.
C13_Witness ==
    /\ pc = "parsed" /\ parsed.ok
    /\ Len(src.nodes) >= 2
    /\ src.nodes[1] = Comment(TRUE, TRUE)
    /\ src.nodes[2].kind = "declaration"
    /\ \E k \in 1..Len(parsed.module.symbols) :
          /\ parsed.module.symbols[k].type = "Symbol"
          /\ parsed.module.symbols[k].source_code = << [at |-> <<2>>, part |-> "all"] >>

\* The ModuleImport that one child of an import clause stands for.
ImportOfForm(child, source) ==
    [type |-> "ModuleImport", source_module |-> source,
     target |-> IF child.kind = "identifier"
                THEN [kind |-> "Default", name |-> child.name]
                ELSE IF child.kind = "namespace_import"
                THEN [kind |-> "Namespace", name |-> child.name]
                ELSE [kind |-> "Named",
                      names |-> [k \in 1..Len(child.specifiers) |->
                                    child.specifiers[k].name],
                      aliases |-> [n \in { child.specifiers[k].name :
                                             k \in { j \in 1..Len(child.specifiers) :
                                                       child.specifiers[j].alias # NoName } } |->
                                      LET k == CHOOSE j \in 1..Len(child.specifiers) :
                                                 /\ child.specifiers[j].name = n
                                                 /\ child.specifiers[j].alias # NoName
                                      IN child.specifiers[k].alias]]]

\* The imports among the symbols that come from the statement at a position.
ImportsFrom(symbols, at) ==
    LET from(symbol) == symbol.type = "ModuleImport" /\ symbol.at = at
    IN SelectSeq(symbols, from)

\* C14: every import statement with a clause yields one ModuleImport for each
\* form in its clause (default, namespace, named), in clause order, each with
\* the source of the statement; `import D, { N as M, O } from './b'` yields
\* Default D, then Named [N, O].
C14_OneImportPerForm ==
    (pc = "parsed" /\ ~src.error) =>
        /\ parsed.ok
        /\ \A i \in 1..Len(src.nodes) :
              src.nodes[i].kind = "import_statement" =>
                LET clause == src.nodes[i].clause
                    own == ImportsFrom(parsed.module.symbols, <<i>>)
                IN /\ Len(own) = Len(clause)
                   /\ \A k \in 1..Len(clause) :
                         [type |-> own[k].type, source_module |-> own[k].source_module,
                          target |-> own[k].target]
                             = ImportOfForm(clause[k], src.nodes[i].source)

\* The export specifiers of a named-export statement, in source order.
SpecifiersOf(node) ==
    LET specifier(child) == child.kind = "export_specifier"
    IN SelectSeq(node.children, specifier)

\* The ModuleExport that a named-export statement stands for.
NamedExportOf(node) ==
    LET S == SpecifiersOf(node)
        aliased == { k \in 1..Len(S) : S[k].alias # NoName }
    IN [type |-> "ModuleExport", source_module |-> node.source,
        target |-> [kind |-> "Named",
                    names |-> [k \in 1..Len(S) |-> S[k].name],
                    aliases |-> [n \in { S[k].name : k \in aliased } |->
                                    S[CHOOSE k \in aliased : S[k].name = n].alias]]]

\* The file is a sequence of named-export statements with specifiers.
OnlyNamedExports ==
    /\ ~src.error
    /\ \A i \in 1..Len(src.nodes) :
          /\ src.nodes[i].kind = "export_statement"
          /\ src.nodes[i].form = "export_clause"
          /\ SpecifiersOf(src.nodes[i]) # <<>>

\* C15: for a sequence of named-export statements the exports are one
\* ModuleExport::Named per statement, in statement order, with the names and
\* the source of that statement; specifiers of two statements are never
\* merged.
C15_OneNamedPerStatement ==
    (pc = "parsed" /\ OnlyNamedExports) =>
        /\ parsed.ok
        /\ Len(parsed.module.symbols) = Len(src.nodes)
        /\ \A i \in 1..Len(src.nodes) :
              LET symbol == parsed.module.symbols[i]
              IN [type |-> symbol.type, source_module |-> symbol.source_module,
                  target |-> symbol.target] = NamedExportOf(src.nodes[i])

\* The ModuleExport::Named among the exports pushed between two scan states.
NamedPushed(old, new) ==
    LET named(export) == export.target.kind = "Named"
    IN SelectSeq(SubSeq(new.exports, Len(old.exports) + 1, Len(new.exports)), named)

\* C16: in the export scan a ModuleExport::Named is emitted only (a) when the
\* source of the match differs from current_source, and then it holds the
\* names buffered before under the old source, (b) at a CommonJS export and
\* (c) at a specifier with no further named sibling; after (b) and (c) the
\* buffers are empty and current_source is None.
C16_FlushTriggers ==
    [][ (pc = "scan" /\ matches # <<>>) =>
          LET m == Head(matches)
              pushed == NamedPushed(scan, scan')
              named_form == m.form \in {"export_specifier", "commonjs"}
              a == named_form /\ m.source # scan.current_source
                      /\ scan.current_names # <<>>
              b == m.form = "commonjs"
              c == m.form = "export_specifier" /\ m.is_last
          IN /\ SubSeq(scan'.exports, 1, Len(scan.exports)) = scan.exports
             /\ Len(pushed) = (IF a THEN 1 ELSE 0) + (IF b \/ c THEN 1 ELSE 0)
             /\ a => /\ pushed[1].target.names = scan.current_names
                     /\ pushed[1].target.aliases = scan.current_aliases
                     /\ pushed[1].source_module = scan.current_source
                     /\ pushed[1] = scan'.exports[Len(scan.exports) + 1]
             /\ (b \/ c) =>
                     /\ Last(Last(pushed).target.names) = m.name
                     /\ Last(pushed).source_module = m.source
                     /\ Last(pushed) = Last(scan'.exports)
                     /\ scan'.current_names = <<>>
                     /\ scan'.current_aliases = EmptyMap
                     /\ scan'.current_source = NoSource
             /\ (named_form /\ ~(b \/ c)) =>
                     /\ scan'.current_names # <<>>
                     /\ Last(scan'.current_names) = m.name
                     /\ scan'.current_source = m.source
    ]_vars

\* A scan that emitted at each of the three triggers: names left over by a
\* statement under its source, the last specifier of a statement and a
\* CommonJS export.
C16_Witness ==
    /\ pc = "scanned"
    /\ Len(scan.exports) = 3
    /\ scan.exports[1].target.kind = "Named"
    /\ scan.exports[1].target.names = <<"t">> /\ scan.exports[1].source_module = SpecB
    /\ scan.exports[2].target.kind = "Named"
    /\ scan.exports[2].target.names = <<"l">>
    /\ scan.exports[3].target.kind = "Named"
    /\ scan.exports[3].target.names = <<"f">>

\* C17: a flush of an empty name buffer emits nothing and changes nothing, and
\* the exports never hold a ModuleExport::Named with no names.
C17_NoEmptyNamed ==
    /\ scan.current_names = <<>> => emit_accumulated_exports(scan) = scan
    /\ \A k \in 1..Len(scan.exports) :
          scan.exports[k].target.kind = "Named"
              => scan.exports[k].target.names # <<>>

\* The source changed while the buffer was empty: the flush pushed nothing
\* and the first name of a sourced statement is buffered.
C17_Witness ==
    /\ pc = "scan"
    /\ scan.exports = <<>>
    /\ scan.current_names = <<"a">>
    /\ scan.current_source = SpecA

\* The positions of the CommonJS exports `export = name` of the file.
CommonJsExports(name) ==
    { i \in 1..Len(src.nodes) :
        /\ src.nodes[i].kind = "export_statement"
        /\ src.nodes[i].form = "commonjs"
        /\ src.nodes[i].name = name }

\* C18: each CommonJS export `export = name` yields exactly one ModuleExport,
\* with no source, the one name and no alias: it carries no name and no
\* source of a statement before it.
C18_CommonJsAlone ==
    pc = "scanned" =>
        \A i \in 1..Len(src.nodes) :
            (src.nodes[i].kind = "export_statement" /\ src.nodes[i].form = "commonjs") =>
                LET name == src.nodes[i].name
                    carriers == { k \in 1..Len(scan.exports) :
                                    /\ scan.exports[k].target.kind = "Named"
                                    /\ name \in Range(scan.exports[k].target.names) }
                IN /\ Cardinality(carriers) = Cardinality(CommonJsExports(name))
                   /\ \A k \in carriers :
                         /\ scan.exports[k].target.names = << name >>
                         /\ scan.exports[k].target.aliases = EmptyMap
                         /\ scan.exports[k].source_module = NoSource

\* The node is a default export: `export default <identifier>` or
\* `export default declare <declaration>`.
IsDefaultExport(node) ==
    \/ node.kind = "export_statement" /\ node.form = "default"
    \/ node.kind = "declaration" /\ node.default /\ node.declare

\* C19: for `export default declare <declaration>`, the first default export
\* of its file, default_export_name is the declared name and the declaration
\* is still a Symbol, exported, whose source code is the statement; the
\* symbols are what get_module_symbols gives for the file.
C19_DefaultNameIndependent ==
    (pc = "parsed" /\ parsed.ok) =>
        /\ parsed.module.symbols = get_module_symbols(src.nodes, <<>>)
        /\ \A i \in 1..Len(src.nodes) :
              (/\ src.nodes[i].kind = "declaration"
               /\ IsDefaultExport(src.nodes[i])
               /\ \A j \in 1..(i - 1) : ~IsDefaultExport(src.nodes[j])) =>
                 /\ parsed.module.default_export_name = src.nodes[i].names[1]
                 /\ \A n \in 1..Len(src.nodes[i].names) :
                       \E k \in 1..Len(parsed.module.symbols) :
                           /\ parsed.module.symbols[k].type = "Symbol"
                           /\ parsed.module.symbols[k].at = <<i>>
                           /\ parsed.module.symbols[k].name = src.nodes[i].names[n]
                           /\ parsed.module.symbols[k].is_exported
                           /\ Last(parsed.module.symbols[k].source_code)
                                 = [at |-> <<i>>, part |-> "all"]

\* C20: for a content whose tree has a syntax error parse_typescript_file
\* returns the Malformed error with its reason and no Module; a Module is
\* returned only for a tree without error, and for the empty file it has no
\* jsdoc, no symbols and no default export name.
C20_MalformedOnError ==
    pc = "parsed" =>
        /\ src.error =>
              /\ ~parsed.ok
              /\ parsed.error.kind = "Malformed"
              /\ parsed.error.message = "Failed to parse source file"
              /\ DOMAIN parsed = {"ok", "error"}
        /\ parsed.ok => ~src.error
        /\ src = Content(<<>>) =>
              parsed = [ok |-> TRUE,
                        module |-> [jsdoc |-> NoNode, symbols |-> <<>>,
                                    default_export_name |-> NoName]]

\* The parse of a content with a syntax error has returned.
C20_Witness ==
    /\ pc = "parsed"
    /\ src.error
    /\ parsed = Malformed

\* Some namespace below the root has a name that the extraction cannot read.
LacksName(nodes) ==
    LET D == Descendants(nodes, <<>>)
    IN \E i \in 1..Len(D) :
          D[i].node.kind = "internal_module" /\ D[i].node.name = NoName

\* C21: a file with a declaration, namespace or variable that lacks a
\* resolvable name is not extracted: parse_typescript_file returns the
\* Malformed error for it, and neither skips the declaration nor stops the
\* process.
C21_NamelessIsMalformed ==
    (pc = "parsed" /\ LacksName(src.nodes)) =>
        /\ ~parsed.ok
        /\ parsed.error.kind = "Malformed"

TypedSubpaths(json) ==
    IF json.exports.shape # "map" THEN {}
    ELSE { k \in DOMAIN json.exports.entries :
             /\ json.exports.entries[k].shape = "map"
             /\ "types" \in DOMAIN json.exports.entries[k].entries
             /\ json.exports.entries[k].entries["types"].shape = "string" }

C24_NearestDependency ==
    /\ [](pc = "resolved" =>
            LET dir == Len(pkg_dirs)
                having == { a \in 1..dir : pkg_dirs[a].dependency }
            IN IF having = {} THEN resolved = [ok |-> FALSE, error |-> "MissingDependency"]
               ELSE LET a == CHOOSE x \in having : \A y \in having : y <= x
                    IN IF \A d \in a..dir : pkg_dirs[d].manifest
                       THEN resolved = [ok |-> TRUE, node_modules_path |-> a]
                       ELSE resolved = [ok |-> FALSE, error |-> "MissingDependency"])
    /\ [](pc = "resolve" => dependant_path \in 1..Len(pkg_dirs))
    /\ [][pc = "resolve" => (pc' = "resolved" \/ dependant_path' < dependant_path)]_vars

\* The dependency was found two directories above the dependant.
C24_Witness ==
    /\ pc = "resolved"
    /\ Len(pkg_dirs) = 3
    /\ resolved = [ok |-> TRUE, node_modules_path |-> 1]

\* Everything that was pushed to the queue so far, in the order of the
\* pushes: the entry points, then the dependencies of each inserted module.
Enqueued ==
    entry_points
      \o Concat([i \in 1..Len(reads) |->
                   IF reads[i] \in DOMAIN modules
                   THEN get_imported_module_paths(fs, modules[reads[i]], reads[i])
                   ELSE <<>>])

\* C25: at every point of the run the files have been read in the order in
\* which their paths were pushed: the queue is the rest of the pushed
\* paths, the paths read are the first occurrences of the paths popped, in
\* their order, and the error returned is that of the first pushed path
\* that fails.
C25_FifoOrder ==
    [](LET pushed == Enqueued
           popped == Len(pushed) - Len(queue)
           visited == reads \o (IF pc = "read" THEN << current_path >> ELSE <<>>)
           first == [k \in 1..Len(visited) |->
                       CHOOSE i \in 1..popped :
                          /\ pushed[i] = visited[k]
                          /\ \A j \in 1..(i - 1) : pushed[j] # visited[k]]
       IN /\ popped >= 0
          /\ queue = SubSeq(pushed, popped + 1, Len(pushed))
          /\ Range(visited) = { pushed[i] : i \in 1..popped }
          /\ \A i, j \in 1..Len(visited) : i < j => first[i] < first[j]
          /\ result.status = "Err" =>
                /\ Fails(Last(reads))
                /\ result.error.kind = "Io" => result.error.path = Last(reads)
                /\ \A i \in 1..popped : Fails(pushed[i]) => pushed[i] = Last(reads))

\* Two entry points were read, and then a dependency of the first.
C25_Witness ==
    /\ pc = "done"
    /\ Len(entry_points) = 2
    /\ Len(reads) >= 3
    /\ reads[1] = entry_points[1]
    /\ reads[2] = entry_points[2]
    /\ reads[3] \in Range(get_imported_module_paths(fs, modules[reads[1]], reads[1]))

\* C26: a barrel or namespace re-export match appends exactly one
\* ModuleExport, Barrel or Namespace with the name and the source of the
\* match, and leaves current_names, current_aliases and current_source as
\* they were.
C26_ReexportEmitsAtOnce ==
    [][(pc = "scan" /\ matches # <<>>
          /\ Head(matches).form \in {"barrel", "namespace_export"}) =>
         /\ Len(scan'.exports) = Len(scan.exports) + 1
         /\ SubSeq(scan'.exports, 1, Len(scan.exports)) = scan.exports
         /\ Last(scan'.exports).type = "ModuleExport"
         /\ Last(scan'.exports).source_module = Head(matches).source
         /\ Last(scan'.exports).target =
               (IF Head(matches).form = "barrel" THEN [kind |-> "Barrel"]
                ELSE [kind |-> "Namespace", name |-> Head(matches).name])
         /\ scan'.current_names = scan.current_names
         /\ scan'.current_aliases = scan.current_aliases
         /\ scan'.current_source = scan.current_source]_vars

\* A barrel re-export was pushed while a name of an earlier statement was
\* in the buffer.
C26_Witness ==
    /\ scan.exports # <<>>
    /\ Last(scan.exports).target.kind = "Barrel"
    /\ scan.current_names # <<>>
    /\ scan.current_source # NoSource
    /\ PosLess(scan.current_at, Last(scan.exports).at)

\* The named-export matches the scan has gone through: one per specifier of
\* a named-export clause and one per CommonJS export.
ScannedNames ==
    LET all == ExportMatches(src.nodes, <<>>)
        gone == SubSeq(all, 1, Len(all) - Len(matches))
    IN SelectSeq(gone, LAMBDA m : m.form \in {"export_specifier", "commonjs"})

\* C27: the names of the emitted Named exports, followed by the names in
\* the buffer, are the names of the matches gone through, in their order,
\* and each match has the source of the Named export (of the buffer: the
\* current_source) its name is in; the keys of an alias map are names of
\* its export (of the buffer).
C27_BufferOfOneSource ==
    LET named == SelectSeq(scan.exports, LAMBDA e : e.target.kind = "Named")
        groups == [i \in 1..Len(named) |->
                     [names |-> named[i].target.names,
                      aliases |-> named[i].target.aliases,
                      source |-> named[i].source_module]]
                  \o (IF scan.current_names # <<>>
                      THEN << [names |-> scan.current_names,
                               aliases |-> scan.current_aliases,
                               source |-> scan.current_source] >>
                      ELSE <<>>)
        listed == Concat([i \in 1..Len(groups) |->
                            [k \in 1..Len(groups[i].names) |->
                               [name |-> groups[i].names[k], source |-> groups[i].source]]])
        surfaced == ScannedNames
    IN pc \in {"scan", "scanned"} =>
          /\ listed = [i \in 1..Len(surfaced) |->
                         [name |-> surfaced[i].name, source |-> surfaced[i].source]]
          /\ \A i \in 1..Len(groups) : DOMAIN groups[i].aliases \subseteq Range(groups[i].names)

\* A name is in the buffer after a Named export with an alias and a source
\* was emitted.
C27_Witness ==
    /\ pc = "scan"
    /\ scan.current_names # <<>>
    /\ \E i \in 1..Len(scan.exports) :
          /\ scan.exports[i].target.kind = "Named"
          /\ scan.exports[i].target.aliases # EmptyMap
          /\ scan.exports[i].source_module # NoSource
          /\ scan.exports[i].source_module # scan.current_source

\* C28: when the scan ends the buffer is empty, and the names of the
\* emitted Named exports are the names of the named-export matches, each
\* once and in their order.
C28_NothingLeftBuffered ==
    pc = "scanned" =>
        /\ scan.current_names = <<>>
        /\ scan.current_aliases = EmptyMap
        /\ LET named == SelectSeq(scan.exports, LAMBDA e : e.target.kind = "Named")
               surfaced == ScannedNames
           IN Concat([i \in 1..Len(named) |-> named[i].target.names])
                 = [i \in 1..Len(surfaced) |-> surfaced[i].name]

\* C29: the keys of the result map are visited paths; a visited path that
\* is no key is the one being read or parsed (the one that failed, after an
\* error); an entry of the map is never overwritten or removed; on success
\* the keys of the ModuleSet are the visited paths.
C29_KeysWithinVisited ==
    /\ [](/\ DOMAIN modules \subseteq visited_paths
          /\ visited_paths \ DOMAIN modules \subseteq
                (IF pc = "read" \/ result.status = "Err" THEN {current_path} ELSE {})
          /\ result.status = "Ok" => DOMAIN result.modules = visited_paths)
    /\ [][\A path \in DOMAIN modules :
             path \in DOMAIN modules' /\ modules'[path] = modules[path]]_vars

\* A second file is being read: it is visited and not yet in the map.
C29_Witness ==
    /\ pc = "read"
    /\ DOMAIN modules # {}
    /\ current_path \in visited_paths \ DOMAIN modules

\* C30: whenever a run has ended, it has returned what from_entrypoints
\* returns for its entry points, and for every other order of the same entry points from_entrypoints
\* succeeds or fails alike and, on success, returns the same ModuleSet: the
\* same keys with the same Modules.
C30_EntryOrderIrrelevant ==
    [](pc = "done" =>
         /\ result = from_entrypoints(fs, entry_points)
         /\ \A order \in { f \in [1..Len(entry_points) -> 1..Len(entry_points)] :
                             \A i, j \in 1..Len(entry_points) : f[i] = f[j] => i = j } :
               LET other == from_entrypoints(fs, [i \in 1..Len(entry_points) |->
                                                    entry_points[order[i]]])
               IN /\ other.status = result.status
                  /\ result.status = "Ok" => other.modules = result.modules)

\* A successful run with two different entry points, the second of which
\* is read first in the other order.
C30_Witness ==
    /\ pc = "done"
    /\ result.status = "Ok"
    /\ Len(entry_points) = 2
    /\ entry_points[1] # entry_points[2]
    /\ Cardinality(DOMAIN result.modules) >= 3

====
